---- MODULE Spec2Model ----
(***************************************************************************)
(* Review-assignment service (teams, users, pull requests).                *)
(*                                                                         *)
(* The state is the content of the four tables (teams, users,              *)
(* pull_requests, pr_reviewers), the teams id sequence, the wall clock,    *)
(* and for every request worker the position and the local variables of    *)
(* the use-case call it is executing.                                      *)
(*                                                                         *)
(* Every use case is written once, as the sequence of its steps: one step  *)
(* is one SQL statement (or one SQL transaction) together with the Go code *)
(* that runs up to the next statement.  A step is an operator from the     *)
(* database and the call to the set of possible outcomes.  Spec runs each  *)
(* call to its end in one action (requests served one at a time); SpecConc *)
(* lets two workers take their steps in any order.                         *)
(*                                                                         *)
(* Identifiers are strings in the program; they are modelled by their rank *)
(* in string order (ORDER BY id), the empty string having rank 0.          *)
(* created_at is written once by SavePR and read by no operation; it is    *)
(* not part of the state.  A transaction is one step.                      *)
(***************************************************************************)
EXTENDS Integers, Sequences, FiniteSets, TLC

(* ------------------------------ bounds --------------------------------- *)
NumUsers == 3
MaxPR == 1
MaxClock == 1
MaxCalls == 4
MaxDraws == 2

(* ----------------------------- constants ------------------------------- *)
EmptyID == 0

UserIDs == 1..NumUsers
PRIDs == EmptyID..MaxPR
Titles == {"", "t1", "t2"}
TeamNames == {"", "backend", "frontend"}
Workers == {"w1", "w2"}
SeqWorker == "w1"

PRStatusOpen == "OPEN"
PRStatusMerged == "MERGED"

ErrUserNotFound == "user not found"
ErrTeamNotFound == "team not found"
ErrTeamExists == "team already exists"
ErrPRNotFound == "pull request not found"
ErrPRExists == "pull request already exists"
ErrPRMerged == "pull request is merged"
ErrReviewerNotAssigned == "reviewer not assigned to this PR"
ErrNoCandidates == "no active candidates available"
ErrEmptyID == "ID should not be empty"
ErrStatus == "Uncorrect status of pull request"
ErrStorage == "pq: constraint violation"
nil == "nil"

VARIABLES teams, teamSeq, users, prs, reviewers, duplicated, clock, calls, ncalls

vars == <<teams, teamSeq, users, prs, reviewers, duplicated, clock, calls, ncalls>>

(***************************************************************************)
(* teams     : set of rows [id, name]                 (name UNIQUE)        *)
(* teamSeq   : last value handed out by the SERIAL sequence of teams.id    *)
(* users     : partial function id -> [username, team_id, is_active]       *)
(* prs       : partial function id -> [title, author_id, status, merged_at]*)
(*             merged_at is <<>> for NULL and <<t>> for the instant t      *)
(* reviewers : the rows <<pr_id, reviewer_id>> that pr_reviewers holds      *)
(* duplicated: the rows that pr_reviewers holds in more than one copy      *)
(* clock     : the current instant                                         *)
(* calls     : worker -> the call it runs (position, arguments, locals,    *)
(*             and, once the position is "done", what it returned)         *)
(* ncalls    : number of calls received so far                             *)
(***************************************************************************)
DB == [teams |-> teams, teamSeq |-> teamSeq, users |-> users, prs |-> prs,
       reviewers |-> reviewers, duplicated |-> duplicated, clock |-> clock]

(* ------------------------------ helpers -------------------------------- *)
\* the members of S in ascending order (ORDER BY id)
RECURSIVE SetToSortedSeq(_)
SetToSortedSeq(S) ==
  IF S = {} THEN <<>>
  ELSE LET least == CHOOSE x \in S : \A y \in S : x <= y
       IN  <<least>> \o SetToSortedSeq(S \ {least})

Range(s) == {s[i] : i \in DOMAIN s}

ReviewerRows(db, prID) == {row[2] : row \in {r \in db.reviewers : r[1] = prID}}

NoUser == [ID |-> EmptyID, Username |-> "", TeamID |-> 0, IsActive |-> FALSE]
NoPR == [ID |-> EmptyID, Title |-> "", AuthorID |-> EmptyID, Status |-> "",
         MergedAt |-> <<>>, AssignedReviewers |-> <<>>]
NoTeam == [ID |-> 0, Name |-> "", Members |-> <<>>]

Idle == [pc |-> "idle", op |-> "", prID |-> EmptyID, title |-> "",
         userID |-> EmptyID, isActive |-> FALSE, team |-> NoTeam, i |-> 0,
         user |-> NoUser, pr |-> NoPR, candidates |-> <<>>,
         newReviewerID |-> EmptyID, rows |-> <<>>, found |-> <<>>,
         indexes |-> <<>>, err |-> nil,
         pre |-> [exists |-> FALSE, row |-> NoPR]]

Done(c, err) == [c EXCEPT !.pc = "done", !.err = err]

One(db, c) == {[db |-> db, c |-> c]}

(* ------------------------- UserRepository ------------------------------ *)
UserFindByID(db, userID) ==
  IF userID \in DOMAIN db.users
    THEN [err |-> nil,
          user |-> [ID |-> userID, Username |-> db.users[userID].username,
                    TeamID |-> db.users[userID].team_id,
                    IsActive |-> db.users[userID].is_active]]
    ELSE [err |-> ErrUserNotFound, user |-> NoUser]

\* variant: the query without "AND id != $2"
FindActiveByTeamID_noExclude(db, teamID, excludeUserID) ==
  SetToSortedSeq({u \in DOMAIN db.users : /\ db.users[u].team_id = teamID
                                          /\ db.users[u].is_active})

\* variant: the query without "AND is_active = true"
FindActiveByTeamID_anyActivity(db, teamID, excludeUserID) ==
  SetToSortedSeq({u \in DOMAIN db.users : /\ db.users[u].team_id = teamID
                                          /\ u # excludeUserID})

FindActiveByTeamID(db, teamID, excludeUserID) ==
  SetToSortedSeq({u \in DOMAIN db.users : /\ db.users[u].team_id = teamID
                                          /\ db.users[u].is_active
                                          /\ u # excludeUserID})

\* variant: deactivating a user also removes the user's pr_reviewers rows
UpdateActivity_unassigns(db, userID, isActive) ==
  IF userID \in DOMAIN db.users
    THEN [err |-> nil,
          db |-> [db EXCEPT !.users[userID].is_active = isActive,
                            !.reviewers = IF isActive THEN @
                                          ELSE {row \in @ : row[2] # userID}]]
    ELSE [err |-> ErrUserNotFound, db |-> db]

UpdateActivity(db, userID, isActive) ==
  IF userID \in DOMAIN db.users
    THEN [err |-> nil, db |-> [db EXCEPT !.users[userID].is_active = isActive]]
    ELSE [err |-> ErrUserNotFound, db |-> db]

\* variant: the INSERT with ON CONFLICT (id) DO NOTHING
SaveUser_insertOnly(db, user) ==
  IF user.Username = "" \/ ~(\E t \in db.teams : t.id = user.TeamID)
    THEN [err |-> ErrStorage, db |-> db]
    ELSE [err |-> nil,
          db |-> [db EXCEPT !.users =
                    @ @@ (user.ID :> [username |-> user.Username, team_id |-> user.TeamID,
                                      is_active |-> user.IsActive])]]

SaveUser(db, user) ==
  IF user.Username = "" \/ ~(\E t \in db.teams : t.id = user.TeamID)
    THEN [err |-> ErrStorage, db |-> db]
    ELSE [err |-> nil,
          db |-> [db EXCEPT !.users =
                    (user.ID :> [username |-> user.Username, team_id |-> user.TeamID,
                                 is_active |-> user.IsActive]) @@ @]]

(* --------------------------- PRRepository ------------------------------ *)
\* variant: pr_reviewers created without its PRIMARY KEY
ReviewerKeyConflict_noKey(db, row) == FALSE

\* PRIMARY KEY (pr_id, reviewer_id): an INSERT of a row that is stored is a
\* conflict
ReviewerKeyConflict(db, row) == row \in db.reviewers

\* the table after the rows have been inserted
InsertReviewerRows(db, rows) ==
  [db EXCEPT !.reviewers = @ \cup rows,
             !.duplicated = @ \cup (rows \cap db.reviewers)]

\* variant: the upsert without "merged_at = EXCLUDED.merged_at"
SavePR_keepsMergedAt(db, pr) ==
  IF pr.ID = EmptyID
    THEN [err |-> ErrEmptyID, db |-> db]
  ELSE IF pr.Status # PRStatusMerged /\ pr.Status # PRStatusOpen
    THEN [err |-> ErrStatus, db |-> db]
  ELSE IF pr.Title = "" \/ pr.AuthorID \notin DOMAIN db.users
    THEN [err |-> ErrStorage, db |-> db]
  ELSE IF \E r \in Range(pr.AssignedReviewers) : r \notin DOMAIN db.users
    THEN [err |-> ErrStorage, db |-> db]
  ELSE [err |-> nil,
        db |-> [db EXCEPT
          !.prs = IF pr.ID \in DOMAIN @
                    THEN [@ EXCEPT ![pr.ID].title = pr.Title,
                                   ![pr.ID].status = pr.Status]
                    ELSE (pr.ID :> [title |-> pr.Title, author_id |-> pr.AuthorID,
                                    status |-> pr.Status, merged_at |-> pr.MergedAt]) @@ @,
          !.reviewers = @ \cup {<<pr.ID, r>> : r \in Range(pr.AssignedReviewers)}]]

\* variant: the INSERT without "ON CONFLICT (id) DO UPDATE"
SavePR_noUpsert(db, pr) ==
  IF pr.ID = EmptyID
    THEN [err |-> ErrEmptyID, db |-> db]
  ELSE IF pr.Status # PRStatusMerged /\ pr.Status # PRStatusOpen
    THEN [err |-> ErrStatus, db |-> db]
  ELSE IF pr.Title = "" \/ pr.AuthorID \notin DOMAIN db.users \/ pr.ID \in DOMAIN db.prs
    THEN [err |-> ErrStorage, db |-> db]
  ELSE IF \E r \in Range(pr.AssignedReviewers) : r \notin DOMAIN db.users
    THEN [err |-> ErrStorage, db |-> db]
  ELSE [err |-> nil,
        db |-> [db EXCEPT
          !.prs = (pr.ID :> [title |-> pr.Title, author_id |-> pr.AuthorID,
                             status |-> pr.Status, merged_at |-> pr.MergedAt]) @@ @,
          !.reviewers = @ \cup {<<pr.ID, r>> : r \in Range(pr.AssignedReviewers)}]]

\* variant: no test of the id, and pull_requests without CHECK (title <> '')
SavePR_noEmptyTests(db, pr) ==
  IF pr.Status # PRStatusMerged /\ pr.Status # PRStatusOpen
    THEN [err |-> ErrStatus, db |-> db]
  ELSE IF pr.AuthorID \notin DOMAIN db.users
    THEN [err |-> ErrStorage, db |-> db]
  ELSE IF \E r \in Range(pr.AssignedReviewers) : r \notin DOMAIN db.users
    THEN [err |-> ErrStorage, db |-> db]
  ELSE [err |-> nil,
        db |-> InsertReviewerRows(
                 [db EXCEPT
                    !.prs = IF pr.ID \in DOMAIN @
                              THEN [@ EXCEPT ![pr.ID].title = pr.Title,
                                             ![pr.ID].status = pr.Status,
                                             ![pr.ID].merged_at = pr.MergedAt]
                              ELSE (pr.ID :> [title |-> pr.Title, author_id |-> pr.AuthorID,
                                              status |-> pr.Status,
                                              merged_at |-> pr.MergedAt]) @@ @],
                 \* ON CONFLICT DO NOTHING
                 {row \in {<<pr.ID, r>> : r \in Range(pr.AssignedReviewers)} :
                    ~ReviewerKeyConflict(db, row)})]

SavePR(db, pr) ==
  IF pr.ID = EmptyID
    THEN [err |-> ErrEmptyID, db |-> db]
  ELSE IF pr.Status # PRStatusMerged /\ pr.Status # PRStatusOpen
    THEN [err |-> ErrStatus, db |-> db]
  ELSE IF pr.Title = "" \/ pr.AuthorID \notin DOMAIN db.users
    THEN [err |-> ErrStorage, db |-> db]
  ELSE IF \E r \in Range(pr.AssignedReviewers) : r \notin DOMAIN db.users
    THEN [err |-> ErrStorage, db |-> db]
  ELSE [err |-> nil,
        db |-> InsertReviewerRows(
                 [db EXCEPT
                    !.prs = IF pr.ID \in DOMAIN @
                              THEN [@ EXCEPT ![pr.ID].title = pr.Title,
                                             ![pr.ID].status = pr.Status,
                                             ![pr.ID].merged_at = pr.MergedAt]
                              ELSE (pr.ID :> [title |-> pr.Title, author_id |-> pr.AuthorID,
                                              status |-> pr.Status,
                                              merged_at |-> pr.MergedAt]) @@ @],
                 \* ON CONFLICT DO NOTHING
                 {row \in {<<pr.ID, r>> : r \in Range(pr.AssignedReviewers)} :
                    ~ReviewerKeyConflict(db, row)})]

\* variant: sql.ErrNoRows is not turned into ErrPRNotFound
FindByIDRow_noRows(db, prID) ==
  IF prID \in DOMAIN db.prs
    THEN [err |-> nil,
          pr |-> [ID |-> prID, Title |-> db.prs[prID].title,
                  AuthorID |-> db.prs[prID].author_id,
                  Status |-> db.prs[prID].status, MergedAt |-> db.prs[prID].merged_at,
                  AssignedReviewers |-> <<>>]]
    ELSE [err |-> nil, pr |-> NoPR]

\* FindByID, first query: the pull_requests row
FindByIDRow(db, prID) ==
  IF prID \in DOMAIN db.prs
    THEN [err |-> nil,
          pr |-> [ID |-> prID, Title |-> db.prs[prID].title,
                  AuthorID |-> db.prs[prID].author_id,
                  Status |-> db.prs[prID].status, MergedAt |-> db.prs[prID].merged_at,
                  AssignedReviewers |-> <<>>]]
    ELSE [err |-> ErrPRNotFound, pr |-> NoPR]

\* FindByID, second query: the pr_reviewers rows (the program uses their
\* number and their members, not their order)
FindByIDReviewers(db, pr) ==
  [pr EXCEPT !.AssignedReviewers = SetToSortedSeq(ReviewerRows(db, pr.ID))]

\* variant: the join query without "ORDER BY pr.id", the rows coming back in
\* descending id order
FindByReviewerIDRows_descending(db, reviewerID) ==
  LET ids == SetToSortedSeq({p \in DOMAIN db.prs : <<p, reviewerID>> \in db.reviewers})
  IN  [k \in 1..Len(ids) |-> FindByIDRow(db, ids[Len(ids) + 1 - k]).pr]

\* FindByReviewerID, the join query: the pull_requests rows that have a
\* pr_reviewers row for the reviewer, ORDER BY pr.id
FindByReviewerIDRows(db, reviewerID) ==
  LET ids == SetToSortedSeq({p \in DOMAIN db.prs : <<p, reviewerID>> \in db.reviewers})
  IN  [k \in 1..Len(ids) |-> FindByIDRow(db, ids[k]).pr]

UpdateStatus(db, prID, status, mergedAt) ==
  IF prID \in DOMAIN db.prs
    THEN [err |-> nil,
          db |-> [db EXCEPT !.prs[prID].status = status, !.prs[prID].merged_at = mergedAt]]
    ELSE [err |-> ErrPRNotFound, db |-> db]

\* variant: no "rows == 0" test after the DELETE
ReplaceReviewer_noRowsCheck(db, prID, oldReviewerID, newReviewerID) ==
  IF \/ <<prID, newReviewerID>> \in db.reviewers \ {<<prID, oldReviewerID>>}
     \/ newReviewerID \notin DOMAIN db.users
     \/ prID \notin DOMAIN db.prs
    THEN [err |-> ErrStorage, db |-> db]
  ELSE [err |-> nil,
        db |-> [db EXCEPT !.reviewers =
                  (@ \ {<<prID, oldReviewerID>>}) \cup {<<prID, newReviewerID>>}]]

\* variant: the DELETE names the new reviewer instead of the old one
ReplaceReviewer_keepsOld(db, prID, oldReviewerID, newReviewerID) ==
  IF <<prID, oldReviewerID>> \notin db.reviewers
    THEN [err |-> ErrReviewerNotAssigned, db |-> db]
  ELSE IF newReviewerID \notin DOMAIN db.users \/ prID \notin DOMAIN db.prs
    THEN [err |-> ErrStorage, db |-> db]
  ELSE [err |-> nil, db |-> [db EXCEPT !.reviewers = @ \cup {<<prID, newReviewerID>>}]]

\* variant: the INSERT with ON CONFLICT DO NOTHING
ReplaceReviewer_insertIgnoresConflict(db, prID, oldReviewerID, newReviewerID) ==
  LET deleted == [db EXCEPT !.reviewers = @ \ {<<prID, oldReviewerID>>},
                            !.duplicated = @ \ {<<prID, oldReviewerID>>}]
  IN  IF <<prID, oldReviewerID>> \notin db.reviewers
        THEN [err |-> ErrReviewerNotAssigned, db |-> db]
      ELSE IF newReviewerID \notin DOMAIN db.users \/ prID \notin DOMAIN db.prs
        THEN [err |-> ErrStorage, db |-> db]
      ELSE IF ReviewerKeyConflict(deleted, <<prID, newReviewerID>>)
        THEN [err |-> nil, db |-> deleted]
      ELSE [err |-> nil, db |-> InsertReviewerRows(deleted, {<<prID, newReviewerID>>})]

\* variant: the two statements run outside a transaction, the DELETE stays
\* when the INSERT fails
ReplaceReviewer_noRollback(db, prID, oldReviewerID, newReviewerID) ==
  LET deleted == [db EXCEPT !.reviewers = @ \ {<<prID, oldReviewerID>>},
                            !.duplicated = @ \ {<<prID, oldReviewerID>>}]
  IN  IF <<prID, oldReviewerID>> \notin db.reviewers
        THEN [err |-> ErrReviewerNotAssigned, db |-> db]
      ELSE IF \/ ReviewerKeyConflict(deleted, <<prID, newReviewerID>>)
              \/ newReviewerID \notin DOMAIN db.users
              \/ prID \notin DOMAIN db.prs
        THEN [err |-> ErrStorage, db |-> deleted]
      ELSE [err |-> nil, db |-> InsertReviewerRows(deleted, {<<prID, newReviewerID>>})]

ReplaceReviewer(db, prID, oldReviewerID, newReviewerID) ==
  LET deleted == [db EXCEPT !.reviewers = @ \ {<<prID, oldReviewerID>>},
                            !.duplicated = @ \ {<<prID, oldReviewerID>>}]
  IN  IF <<prID, oldReviewerID>> \notin db.reviewers
        THEN [err |-> ErrReviewerNotAssigned, db |-> db]
      ELSE IF \/ ReviewerKeyConflict(deleted, <<prID, newReviewerID>>)
              \/ newReviewerID \notin DOMAIN db.users
              \/ prID \notin DOMAIN db.prs
        THEN [err |-> ErrStorage, db |-> db]
      ELSE [err |-> nil, db |-> InsertReviewerRows(deleted, {<<prID, newReviewerID>>})]

(* --------------------------- TeamRepository ---------------------------- *)
\* variant: the unique violation is returned as the driver reports it
SaveTeam_rawUnique(db, name) ==
  IF name = "" \/ \E t \in db.teams : t.name = name
    THEN [err |-> ErrStorage, id |-> 0, db |-> [db EXCEPT !.teamSeq = @ + 1]]
    ELSE [err |-> nil, id |-> db.teamSeq + 1,
          db |-> [db EXCEPT !.teamSeq = @ + 1,
                            !.teams = @ \cup {[id |-> db.teamSeq + 1, name |-> name]}]]

\* the sequence advances whether or not the INSERT succeeds
SaveTeam(db, name) ==
  IF name = ""
    THEN [err |-> ErrStorage, id |-> 0, db |-> [db EXCEPT !.teamSeq = @ + 1]]
  ELSE IF \E t \in db.teams : t.name = name
    THEN [err |-> ErrTeamExists, id |-> 0, db |-> [db EXCEPT !.teamSeq = @ + 1]]
    ELSE [err |-> nil, id |-> db.teamSeq + 1,
          db |-> [db EXCEPT !.teamSeq = @ + 1,
                            !.teams = @ \cup {[id |-> db.teamSeq + 1, name |-> name]}]]

(* ----------------------------- PRUseCase ------------------------------- *)
\* the values the two indexes can hold when the re-draw loop has ended
DrawIndexes(n) ==
  IF n > 1 THEN {<<p[1], p[2]>> : p \in {q \in (0..(n-1)) \X (0..(n-1)) : q[1] # q[2]}}
           ELSE {<<a>> : a \in 0..(n-1)}

\* variant: a second index is never drawn
autoAssignReviewers_single(candidates) ==
  IF Len(candidates) = 0
    THEN {[err |-> ErrNoCandidates, indexes |-> <<>>, reviewers |-> <<>>]}
    ELSE {[err |-> nil, indexes |-> idx,
           reviewers |-> [i \in 1..Len(idx) |-> candidates[i]]] :
             idx \in DrawIndexes(1)}

\* variant: an empty pool yields no reviewer and no error
autoAssignReviewers_emptyOk(candidates) ==
  IF Len(candidates) = 0
    THEN {[err |-> nil, indexes |-> <<>>, reviewers |-> <<>>]}
    ELSE {[err |-> nil, indexes |-> idx,
           reviewers |-> [i \in 1..Len(idx) |-> candidates[i]]] :
             idx \in DrawIndexes(Len(candidates))}

\* reviewers[i] = candidates[i].ID for i < len(indexes)
autoAssignReviewers(candidates) ==
  IF Len(candidates) = 0
    THEN {[err |-> ErrNoCandidates, indexes |-> <<>>, reviewers |-> <<>>]}
    ELSE {[err |-> nil, indexes |-> idx,
           reviewers |-> [i \in 1..Len(idx) |-> candidates[i]]] :
             idx \in DrawIndexes(Len(candidates))}

availableCandidates(pr, candidates) ==
  SelectSeq(candidates, LAMBDA c : c \notin Range(pr.AssignedReviewers))

selectRandomReviewer(pr, candidates) ==
  IF Len(availableCandidates(pr, candidates)) = 0
    THEN {[err |-> ErrNoCandidates, selected |-> EmptyID]}
    ELSE {[err |-> nil, selected |-> availableCandidates(pr, candidates)[k]] :
             k \in 1..Len(availableCandidates(pr, candidates))}

\* what the stored pull request looks like when a call is received (history)
Snapshot(db, prID) ==
  IF prID \in DOMAIN db.prs
    THEN [exists |-> TRUE, row |-> FindByIDReviewers(db, FindByIDRow(db, prID).pr)]
    ELSE [exists |-> FALSE, row |-> NoPR]

(* CreatePR: userRepo.FindByID(authorID) *)
CreatePR_FindAuthor(db, c) ==
  LET f == UserFindByID(db, c.userID)
  IN  One(db, IF f.err # nil THEN Done(c, ErrUserNotFound)
                             ELSE [c EXCEPT !.pc = "CreatePR_autoAssign", !.user = f.user])

\* variant: the record is saved before the error of autoAssignReviewers is
\* looked at
CreatePR_autoAssign_savesFirst(db, c) ==
  LET candidates == FindActiveByTeamID(db, c.user.TeamID, c.userID)
  IN  {IF a.err # nil
         THEN [db |-> SavePR(db, [ID |-> c.prID, Title |-> c.title, AuthorID |-> c.userID,
                                  Status |-> PRStatusOpen, MergedAt |-> <<>>,
                                  AssignedReviewers |-> a.reviewers]).db,
               c |-> Done([c EXCEPT !.candidates = candidates], a.err)]
         ELSE [db |-> db,
               c |-> [c EXCEPT !.pc = "CreatePR_SavePR", !.candidates = candidates,
                               !.pr = [ID |-> c.prID, Title |-> c.title, AuthorID |-> c.userID,
                                       Status |-> PRStatusOpen, MergedAt |-> <<>>,
                                       AssignedReviewers |-> a.reviewers]]] :
         a \in autoAssignReviewers(candidates)}

(* CreatePR: autoAssignReviewers (FindActiveByTeamID and the draw) *)
CreatePR_autoAssign(db, c) ==
  LET candidates == FindActiveByTeamID(db, c.user.TeamID, c.userID)
  IN  {[db |-> db,
        c |-> IF a.err # nil
                THEN Done([c EXCEPT !.candidates = candidates], a.err)
                ELSE [c EXCEPT !.pc = "CreatePR_SavePR", !.candidates = candidates,
                               !.pr = [ID |-> c.prID, Title |-> c.title, AuthorID |-> c.userID,
                                       Status |-> PRStatusOpen, MergedAt |-> <<>>,
                                       AssignedReviewers |-> a.reviewers]]] :
         a \in autoAssignReviewers(candidates)}

(* CreatePR: prRepo.SavePR(pr), one transaction *)
CreatePR_SavePR(db, c) ==
  LET s == SavePR(db, c.pr)
  IN  One(s.db, Done(c, s.err))

(* MergePR: prRepo.FindByID, first query *)
MergePR_FindByID(db, c) ==
  LET f == FindByIDRow(db, c.prID)
  IN  One(db, IF f.err # nil THEN Done(c, f.err)
                             ELSE [c EXCEPT !.pc = "MergePR_FindReviewers", !.pr = f.pr])

\* variant: MergePR without the early return for a MERGED pull request
MergePR_FindReviewers_noEarlyReturn(db, c) ==
  LET pr == FindByIDReviewers(db, c.pr)
  IN  {[db |-> [db EXCEPT !.clock = now],
        c |-> [c EXCEPT !.pc = "MergePR_UpdateStatus",
                        !.pr = [pr EXCEPT !.Status = PRStatusMerged,
                                          !.MergedAt = <<now>>]]] :
         now \in db.clock..MaxClock}

(* MergePR: prRepo.FindByID, second query, the MERGED test, and time.Now() *)
MergePR_FindReviewers(db, c) ==
  LET pr == FindByIDReviewers(db, c.pr)
  IN  IF pr.Status = PRStatusMerged
        THEN One(db, Done([c EXCEPT !.pr = pr], nil))
        ELSE {[db |-> [db EXCEPT !.clock = now],
               c |-> [c EXCEPT !.pc = "MergePR_UpdateStatus",
                               !.pr = [pr EXCEPT !.Status = PRStatusMerged,
                                                 !.MergedAt = <<now>>]]] :
                now \in db.clock..MaxClock}

(* MergePR: prRepo.UpdateStatus(prID, MERGED, &now) *)
MergePR_UpdateStatus(db, c) ==
  LET u == UpdateStatus(db, c.prID, PRStatusMerged, c.pr.MergedAt)
  IN  One(u.db, IF u.err # nil THEN Done([c EXCEPT !.pr = NoPR], u.err) ELSE Done(c, nil))

(* GetPR: prRepo.FindByID, first query *)
GetPR_FindByID(db, c) ==
  LET f == FindByIDRow(db, c.prID)
  IN  One(db, IF f.err # nil THEN Done(c, f.err)
                             ELSE [c EXCEPT !.pc = "GetPR_FindReviewers", !.pr = f.pr])

(* GetPR: prRepo.FindByID, second query *)
GetPR_FindReviewers(db, c) ==
  One(db, Done([c EXCEPT !.pr = FindByIDReviewers(db, c.pr)], nil))

(* GetPRsByReviewer: prRepo.FindByReviewerID, the join query *)
GetPRsByReviewer_Query(db, c) ==
  LET rows == FindByReviewerIDRows(db, c.userID)
  IN  One(db, IF Len(rows) = 0 THEN Done(c, nil)
                               ELSE [c EXCEPT !.pc = "GetPRsByReviewer_Reviewers",
                                              !.rows = rows, !.i = 1])

(* GetPRsByReviewer: one turn of the loop over the rows, the reviewers query
   of the row and the append *)
GetPRsByReviewer_Reviewers(db, c) ==
  LET next == [c EXCEPT !.found = Append(@, FindByIDReviewers(db, c.rows[c.i])),
                        !.i = @ + 1]
  IN  One(db, IF c.i = Len(c.rows) THEN Done(next, nil) ELSE next)

(* ReassignReviewer: prRepo.FindByID, first query *)
Reassign_FindByID(db, c) ==
  LET f == FindByIDRow(db, c.prID)
  IN  One(db, IF f.err # nil THEN Done(c, f.err)
                             ELSE [c EXCEPT !.pc = "Reassign_FindReviewers", !.pr = f.pr])

\* variant: the isAssigned test comes before the MERGED test
Reassign_FindReviewers_assignedFirst(db, c) ==
  LET pr == FindByIDReviewers(db, c.pr)
      isAssigned == \E k \in DOMAIN pr.AssignedReviewers : pr.AssignedReviewers[k] = c.userID
  IN  One(db, IF ~isAssigned THEN Done([c EXCEPT !.pr = pr], ErrReviewerNotAssigned)
              ELSE IF pr.Status = PRStatusMerged THEN Done([c EXCEPT !.pr = pr], ErrPRMerged)
              ELSE [c EXCEPT !.pc = "Reassign_FindOldReviewer", !.pr = pr])

\* variant: no isAssigned loop
Reassign_FindReviewers_noAssignedTest(db, c) ==
  LET pr == FindByIDReviewers(db, c.pr)
  IN  One(db, IF pr.Status = PRStatusMerged THEN Done([c EXCEPT !.pr = pr], ErrPRMerged)
              ELSE [c EXCEPT !.pc = "Reassign_FindOldReviewer", !.pr = pr])

(* ReassignReviewer: prRepo.FindByID, second query, then the MERGED test and
   the isAssigned loop *)
Reassign_FindReviewers(db, c) ==
  LET pr == FindByIDReviewers(db, c.pr)
      isAssigned == \E k \in DOMAIN pr.AssignedReviewers : pr.AssignedReviewers[k] = c.userID
  IN  One(db, IF pr.Status = PRStatusMerged THEN Done([c EXCEPT !.pr = pr], ErrPRMerged)
              ELSE IF ~isAssigned THEN Done([c EXCEPT !.pr = pr], ErrReviewerNotAssigned)
              ELSE [c EXCEPT !.pc = "Reassign_FindOldReviewer", !.pr = pr])

(* ReassignReviewer: userRepo.FindByID(oldReviewerID) *)
Reassign_FindOldReviewer(db, c) ==
  LET f == UserFindByID(db, c.userID)
  IN  One(db, IF f.err # nil THEN Done(c, f.err)
                             ELSE [c EXCEPT !.pc = "Reassign_selectRandomReviewer",
                                            !.user = f.user])

\* variant: the old reviewer is removed before a replacement is looked for
Reassign_selectRandomReviewer_dropsOld(db, c) ==
  LET candidates == FindActiveByTeamID(db, c.user.TeamID, c.userID)
      dropped == [db EXCEPT !.reviewers = @ \ {<<c.prID, c.userID>>}]
  IN  {[db |-> dropped,
        c |-> IF s.err # nil
                THEN Done([c EXCEPT !.candidates = candidates], s.err)
                ELSE [c EXCEPT !.pc = "Reassign_ReplaceReviewer", !.candidates = candidates,
                               !.newReviewerID = s.selected]] :
         s \in selectRandomReviewer(c.pr, candidates)}

(* ReassignReviewer: selectRandomReviewer (FindActiveByTeamID, the filter, the draw) *)
Reassign_selectRandomReviewer(db, c) ==
  LET candidates == FindActiveByTeamID(db, c.user.TeamID, c.userID)
  IN  {[db |-> db,
        c |-> IF s.err # nil
                THEN Done([c EXCEPT !.candidates = candidates], s.err)
                ELSE [c EXCEPT !.pc = "Reassign_ReplaceReviewer", !.candidates = candidates,
                               !.newReviewerID = s.selected]] :
         s \in selectRandomReviewer(c.pr, candidates)}

(* ReassignReviewer: prRepo.ReplaceReviewer, one transaction *)
Reassign_ReplaceReviewer(db, c) ==
  LET r == ReplaceReviewer(db, c.prID, c.userID, c.newReviewerID)
  IN  One(r.db, IF r.err # nil THEN Done([c EXCEPT !.newReviewerID = EmptyID], r.err)
                               ELSE Done(c, nil))

(* ----------------------------- UserUseCase ----------------------------- *)
(* SetUserActivity: userRepo.FindByID(userID) *)
SetUserActivity_FindByID(db, c) ==
  LET f == UserFindByID(db, c.userID)
  IN  One(db, IF f.err # nil THEN Done(c, f.err)
                             ELSE [c EXCEPT !.pc = "SetUserActivity_Update", !.user = f.user])

\* variant: the returned user keeps the flag that FindByID read
SetUserActivity_Update_staleFlag(db, c) ==
  LET u == UpdateActivity(db, c.userID, c.isActive)
  IN  One(u.db, IF u.err # nil THEN Done([c EXCEPT !.user = NoUser], u.err)
                               ELSE Done(c, nil))

(* SetUserActivity: userRepo.UpdateActivity(userID, isActive) *)
SetUserActivity_Update(db, c) ==
  LET u == UpdateActivity(db, c.userID, c.isActive)
  IN  One(u.db, IF u.err # nil THEN Done([c EXCEPT !.user = NoUser], u.err)
                               ELSE Done([c EXCEPT !.user.IsActive = c.isActive], nil))

(* ----------------------------- TeamUseCase ----------------------------- *)
user2member(u) == [UserID |-> u.ID, Username |-> u.Username, IsActive |-> u.IsActive]

member2user(m, teamID) ==
  [ID |-> m.UserID, Username |-> m.Username, TeamID |-> teamID, IsActive |-> m.IsActive]

(* CreateTeam: teamRepo.SaveTeam(team) *)
CreateTeam_SaveTeam(db, c) ==
  LET s == SaveTeam(db, c.team.Name)
  IN  One(s.db, IF s.err # nil THEN Done(c, s.err)
                ELSE IF Len(c.team.Members) = 0 THEN Done([c EXCEPT !.team.ID = s.id], nil)
                ELSE [c EXCEPT !.pc = "CreateTeam_SaveUser", !.team.ID = s.id, !.i = 1])

(* CreateTeam: one turn of the loop over the members, userRepo.SaveUser(user);
   the loop runs once for each member the request carried *)
CreateTeam_SaveUser(db, c) ==
  LET n == Len(c.team.Members) - (c.i - 1)
      user == member2user(c.team.Members[c.i], c.team.ID)
      s == SaveUser(db, user)
      appended == [c EXCEPT !.team.Members = Append(@, user2member(user)), !.i = @ + 1]
  IN  One(s.db, IF s.err # nil THEN Done(c, s.err)
                ELSE IF c.i = n THEN Done(appended, nil)
                ELSE appended)

(* ------------------------------ requests ------------------------------- *)
NewCreatePR(db, prID, title, authorID) ==
  [Idle EXCEPT !.pc = "CreatePR_FindAuthor", !.op = "CreatePR", !.prID = prID,
               !.title = title, !.userID = authorID, !.pre = Snapshot(db, prID)]

NewMergePR(db, prID) ==
  [Idle EXCEPT !.pc = "MergePR_FindByID", !.op = "MergePR", !.prID = prID,
               !.pre = Snapshot(db, prID)]

NewReassignReviewer(db, prID, oldReviewerID) ==
  [Idle EXCEPT !.pc = "Reassign_FindByID", !.op = "ReassignReviewer", !.prID = prID,
               !.userID = oldReviewerID, !.pre = Snapshot(db, prID)]

NewGetPR(db, prID) ==
  [Idle EXCEPT !.pc = "GetPR_FindByID", !.op = "GetPR", !.prID = prID,
               !.pre = Snapshot(db, prID)]

NewGetPRsByReviewer(reviewerID) ==
  [Idle EXCEPT !.pc = "GetPRsByReviewer_Query", !.op = "GetPRsByReviewer",
               !.userID = reviewerID]

NewSetUserActivity(userID, isActive) ==
  [Idle EXCEPT !.pc = "SetUserActivity_FindByID", !.op = "SetUserActivity",
               !.userID = userID, !.isActive = isActive]

NewCreateTeam(name, members) ==
  [Idle EXCEPT !.pc = "CreateTeam_SaveTeam", !.op = "CreateTeam",
               !.team = [ID |-> 0, Name |-> name, Members |-> members]]

\* the member lists a request can carry: the first j user ids in order, all
\* active, and the same lists with the last username left empty
MemberRun(i, j, lastName) ==
  [k \in 1..(j - i + 1) |->
     [UserID |-> i + k - 1, Username |-> IF k = j - i + 1 THEN lastName ELSE "n",
      IsActive |-> TRUE]]

MemberLists ==
  {<<>>} \cup {MemberRun(1, j, n) : j \in UserIDs, n \in {"n", ""}}

(* ------------------------------- steps --------------------------------- *)
\* the outcomes of the next step of call c on database db
StepOf(db, c) ==
  CASE c.pc = "CreatePR_FindAuthor" -> CreatePR_FindAuthor(db, c)
    [] c.pc = "CreatePR_autoAssign" -> CreatePR_autoAssign(db, c)
    [] c.pc = "CreatePR_SavePR" -> CreatePR_SavePR(db, c)
    [] c.pc = "MergePR_FindByID" -> MergePR_FindByID(db, c)
    [] c.pc = "MergePR_FindReviewers" -> MergePR_FindReviewers(db, c)
    [] c.pc = "MergePR_UpdateStatus" -> MergePR_UpdateStatus(db, c)
    [] c.pc = "GetPR_FindByID" -> GetPR_FindByID(db, c)
    [] c.pc = "GetPR_FindReviewers" -> GetPR_FindReviewers(db, c)
    [] c.pc = "GetPRsByReviewer_Query" -> GetPRsByReviewer_Query(db, c)
    [] c.pc = "GetPRsByReviewer_Reviewers" -> GetPRsByReviewer_Reviewers(db, c)
    [] c.pc = "Reassign_FindByID" -> Reassign_FindByID(db, c)
    [] c.pc = "Reassign_FindReviewers" -> Reassign_FindReviewers(db, c)
    [] c.pc = "Reassign_FindOldReviewer" -> Reassign_FindOldReviewer(db, c)
    [] c.pc = "Reassign_selectRandomReviewer" -> Reassign_selectRandomReviewer(db, c)
    [] c.pc = "Reassign_ReplaceReviewer" -> Reassign_ReplaceReviewer(db, c)
    [] c.pc = "SetUserActivity_FindByID" -> SetUserActivity_FindByID(db, c)
    [] c.pc = "SetUserActivity_Update" -> SetUserActivity_Update(db, c)
    [] c.pc = "CreateTeam_SaveTeam" -> CreateTeam_SaveTeam(db, c)
    [] c.pc = "CreateTeam_SaveUser" -> CreateTeam_SaveUser(db, c)
    [] OTHER -> {}

\* the outcomes of call c run from its position to its return with no other
\* call in between
RECURSIVE Run(_, _)
Run(db, c) ==
  IF c.pc = "done" THEN One(db, c)
                   ELSE UNION {Run(n.db, n.c) : n \in StepOf(db, c)}

Commit(w, n) ==
  /\ teams' = n.db.teams
  /\ teamSeq' = n.db.teamSeq
  /\ users' = n.db.users
  /\ prs' = n.db.prs
  /\ reviewers' = n.db.reviewers
  /\ duplicated' = n.db.duplicated
  /\ clock' = n.db.clock
  /\ calls' = [calls EXCEPT ![w] = n.c]

(* -------------------- one request at a time (Spec) ---------------------- *)
\* the worker is free and the call budget is not spent
CanServe == calls[SeqWorker].pc = "idle" /\ ncalls < MaxCalls

\* each action receives one call and runs it to its return
CreatePR(prID, title, authorID) ==
  /\ CanServe
  /\ \E n \in Run(DB, NewCreatePR(DB, prID, title, authorID)) : Commit(SeqWorker, n)
  /\ ncalls' = ncalls + 1

MergePR(prID) ==
  /\ CanServe
  /\ \E n \in Run(DB, NewMergePR(DB, prID)) : Commit(SeqWorker, n)
  /\ ncalls' = ncalls + 1

GetPR(prID) ==
  /\ CanServe
  /\ \E n \in Run(DB, NewGetPR(DB, prID)) : Commit(SeqWorker, n)
  /\ ncalls' = ncalls + 1

ReassignReviewer(prID, oldReviewerID) ==
  /\ CanServe
  /\ \E n \in Run(DB, NewReassignReviewer(DB, prID, oldReviewerID)) : Commit(SeqWorker, n)
  /\ ncalls' = ncalls + 1

SetUserActivity(userID, isActive) ==
  /\ CanServe
  /\ \E n \in Run(DB, NewSetUserActivity(userID, isActive)) : Commit(SeqWorker, n)
  /\ ncalls' = ncalls + 1

CreateTeam(name, members) ==
  /\ CanServe
  /\ \E n \in Run(DB, NewCreateTeam(name, members)) : Commit(SeqWorker, n)
  /\ ncalls' = ncalls + 1

\* the response is written and the worker takes the next call, if one is left
Respond ==
  /\ calls[SeqWorker].pc = "done"
  /\ ncalls < MaxCalls
  /\ calls' = [calls EXCEPT ![SeqWorker] = Idle]
  /\ UNCHANGED <<teams, teamSeq, users, prs, reviewers, duplicated, clock, ncalls>>

Next ==
  \/ \E prID \in PRIDs, title \in Titles, authorID \in UserIDs :
       CreatePR(prID, title, authorID)
  \/ \E prID \in PRIDs : MergePR(prID)
  \/ \E prID \in PRIDs : GetPR(prID)
  \/ \E prID \in PRIDs, oldReviewerID \in UserIDs : ReassignReviewer(prID, oldReviewerID)
  \/ \E userID \in UserIDs, isActive \in BOOLEAN : SetUserActivity(userID, isActive)
  \/ \E name \in TeamNames, members \in MemberLists : CreateTeam(name, members)
  \/ Respond

\* the tables are empty when the service starts
Init ==
  /\ teams = {}
  /\ teamSeq = 0
  /\ users = <<>>
  /\ prs = <<>>
  /\ reviewers = {}
  /\ duplicated = {}
  /\ clock = 0
  /\ ncalls = 0
  /\ calls = [w \in Workers |-> Idle]

Spec == Init /\ [][Next]_vars

(* -------------------- two requests at once (SpecConc) ------------------- *)
\* a worker receives a call and takes its first step
Receive(w, c) ==
  /\ calls[w].pc = "idle"
  /\ ncalls' = ncalls + 1
  /\ \E n \in StepOf(DB, c) : Commit(w, n)

\* a worker takes the next step of the call of kind op it is in
Proceed(w, op) ==
  /\ calls[w].op = op
  /\ calls[w].pc \notin {"idle", "done"}
  /\ ncalls' = ncalls
  /\ \E n \in StepOf(DB, calls[w]) : Commit(w, n)

NextConc ==
  \E w \in Workers :
    \/ \E prID \in PRIDs, title \in Titles, authorID \in UserIDs :
         Receive(w, NewCreatePR(DB, prID, title, authorID))
    \/ Proceed(w, "CreatePR")
    \/ \E prID \in PRIDs : Receive(w, NewMergePR(DB, prID))
    \/ Proceed(w, "MergePR")
    \/ \E prID \in PRIDs : Receive(w, NewGetPR(DB, prID))
    \/ Proceed(w, "GetPR")
    \/ \E prID \in PRIDs, oldReviewerID \in UserIDs :
         Receive(w, NewReassignReviewer(DB, prID, oldReviewerID))
    \/ Proceed(w, "ReassignReviewer")
    \/ \E userID \in UserIDs, isActive \in BOOLEAN :
         Receive(w, NewSetUserActivity(userID, isActive))
    \/ Proceed(w, "SetUserActivity")
    \/ \E name \in TeamNames, members \in MemberLists :
         Receive(w, NewCreateTeam(name, members))
    \/ Proceed(w, "CreateTeam")

\* each worker serves one call, on a database that CreateTeam("backend", all
\* users) has filled, without a pull request or with the pull request that
\* CreatePR(1, "t1", 1) has stored
BackendTeam == {[id |-> 1, name |-> "backend"]}
BackendUsers == [u \in UserIDs |-> [username |-> "n", team_id |-> 1, is_active |-> TRUE]]
FirstPR == 1 :> [title |-> "t1", author_id |-> 1, status |-> PRStatusOpen, merged_at |-> <<>>]
FirstReviewers == {<<1, 2>>, <<1, 3>>}

InitConc ==
  /\ teams = BackendTeam
  /\ teamSeq = 1
  /\ users = BackendUsers
  /\ \/ prs = <<>> /\ reviewers = {}
     \/ prs = FirstPR /\ reviewers = FirstReviewers
  /\ duplicated = {}
  /\ clock = 0
  /\ ncalls = 0
  /\ calls = [w \in Workers |-> Idle]

SpecConc == InitConc /\ [][NextConc]_vars

(* ------------------- the reviewer's list (SpecRead) --------------------- *)
GetPRsByReviewer(reviewerID) ==
  /\ CanServe
  /\ \E n \in Run(DB, NewGetPRsByReviewer(reviewerID)) : Commit(SeqWorker, n)
  /\ ncalls' = ncalls + 1

NextRead ==
  \/ \E reviewerID \in {EmptyID} \cup UserIDs : GetPRsByReviewer(reviewerID)
  \/ Respond

\* the pull requests of the stored tables: user 1 of the backend team has
\* created some of the ids 1..MaxPR+2, each with one or two team-mates as
\* reviewers, and some of them have been merged
ListedPRIDs == 1..(MaxPR + 2)

ReviewerChoices == {R \in SUBSET (UserIDs \ {1}) : Cardinality(R) \in {1, 2}}

InitRead ==
  /\ teams = BackendTeam
  /\ teamSeq = 1
  /\ users = BackendUsers
  /\ \E created \in SUBSET ListedPRIDs, merged \in SUBSET ListedPRIDs :
       /\ merged \subseteq created
       /\ prs = [p \in created |->
                   [title |-> "t1", author_id |-> 1,
                    status |-> IF p \in merged THEN PRStatusMerged ELSE PRStatusOpen,
                    merged_at |-> IF p \in merged THEN <<0>> ELSE <<>>]]
       /\ \E assigned \in [created -> ReviewerChoices] :
            reviewers = {row \in created \X UserIDs : row[2] \in assigned[row[1]]}
  /\ duplicated = {}
  /\ clock = 0
  /\ ncalls = 0
  /\ calls = [w \in Workers |-> Idle]

SpecRead == InitRead /\ [][NextRead]_vars

(* --------------------- the reviewer draw (SpecDraw) --------------------- *)
\* CreatePR calls on a team of NumUsers + 1 users, each of them active or
\* not, so that the pool of an author has from no to NumUsers members
DrawUserIDs == 1..(NumUsers + 1)

InitDraw ==
  /\ teams = BackendTeam
  /\ teamSeq = 1
  /\ \E active \in SUBSET DrawUserIDs :
       users = [u \in DrawUserIDs |->
                  [username |-> "n", team_id |-> 1, is_active |-> u \in active]]
  /\ prs = <<>>
  /\ reviewers = {}
  /\ duplicated = {}
  /\ clock = 0
  /\ ncalls = 0
  /\ calls = [w \in Workers |-> Idle]

NextDraw ==
  \/ \E prID \in PRIDs, title \in Titles, authorID \in UserIDs :
       CreatePR(prID, title, authorID)
  \/ Respond

SpecDraw == InitDraw /\ [][NextDraw]_vars

(* --------------- the repository's ReplaceReviewer (SpecRepo) ------------ *)
\* an id that no row of the users table has
NoUserID == NumUsers + 1

\* prRepo.ReplaceReviewer called on its own, as the repository's test calls it
RepoReplaceReviewer(prID, oldReviewerID, newReviewerID) ==
  /\ CanServe
  /\ LET r == ReplaceReviewer(DB, prID, oldReviewerID, newReviewerID)
     IN  Commit(SeqWorker,
                [db |-> r.db,
                 c |-> Done([Idle EXCEPT !.op = "ReplaceReviewer", !.prID = prID,
                                         !.userID = oldReviewerID,
                                         !.newReviewerID = newReviewerID,
                                         !.pre = Snapshot(DB, prID)], r.err)])
  /\ ncalls' = ncalls + 1

NextRepo ==
  \/ \E prID \in PRIDs, oldReviewerID \in UserIDs, newReviewerID \in UserIDs \cup {NoUserID} :
       RepoReplaceReviewer(prID, oldReviewerID, newReviewerID)
  \/ Respond

\* the stored tables: the backend team with its users, and the pull request 1
\* of user 1 with none, one or two of the other users as reviewers
InitRepo ==
  /\ teams = BackendTeam
  /\ teamSeq = 1
  /\ users = BackendUsers
  /\ prs = FirstPR
  /\ \E R \in SUBSET (UserIDs \ {1}) :
       /\ Cardinality(R) <= 2
       /\ reviewers = {1} \X R
  /\ duplicated = {}
  /\ clock = 0
  /\ ncalls = 0
  /\ calls = [w \in Workers |-> Idle]

SpecRepo == InitRepo /\ [][NextRepo]_vars

(* ------------- the draw of autoAssignReviewers (SpecLoop) --------------- *)
\* variant: a generator that returns the same number on every call
Intn_stuck(n) == {0}

\* rand.Intn(n)
Intn(n) == 0..(n - 1)

\* autoAssignReviewers is entered: FindActiveByTeamID and the test of an empty
\* pool
EnterAutoAssign(teamID, excludeUserID) ==
  /\ calls[SeqWorker].pc = "idle"
  /\ LET candidates == FindActiveByTeamID(DB, teamID, excludeUserID)
         c == [Idle EXCEPT !.op = "autoAssignReviewers", !.userID = excludeUserID,
                           !.candidates = candidates]
     IN  calls' = [calls EXCEPT ![SeqWorker] =
                     IF Len(candidates) = 0 THEN Done(c, ErrNoCandidates)
                                            ELSE [c EXCEPT !.pc = "Draw_first"]]
  /\ ncalls' = ncalls + 1
  /\ UNCHANGED <<teams, teamSeq, users, prs, reviewers, duplicated, clock>>

\* indexes[0] = rand.Intn(len(candidates))
DrawFirst(k) ==
  /\ calls[SeqWorker].pc = "Draw_first"
  /\ k \in Intn(Len(calls[SeqWorker].candidates))
  /\ calls' = [calls EXCEPT ![SeqWorker].indexes = <<k>>, ![SeqWorker].pc = "Draw_second"]
  /\ UNCHANGED <<teams, teamSeq, users, prs, reviewers, duplicated, clock, ncalls>>

\* if len(candidates) > 1 { indexes = append(indexes, rand.Intn(len(candidates))) }
DrawSecond(k) ==
  /\ calls[SeqWorker].pc = "Draw_second"
  /\ k \in Intn(Len(calls[SeqWorker].candidates))
  /\ calls' = [calls EXCEPT
                 ![SeqWorker].indexes = IF Len(calls[SeqWorker].candidates) > 1
                                          THEN Append(@, k) ELSE @,
                 ![SeqWorker].pc = "Draw_loop"]
  /\ UNCHANGED <<teams, teamSeq, users, prs, reviewers, duplicated, clock, ncalls>>

\* len(indexes) > 1 && indexes[0] == indexes[1]
LoopCondition(indexes) == Len(indexes) > 1 /\ indexes[1] = indexes[2]

\* one turn of the loop: indexes[1] = rand.Intn(len(candidates)); the turns
\* are counted up to MaxDraws
Redraw(k) ==
  /\ calls[SeqWorker].pc = "Draw_loop"
  /\ LoopCondition(calls[SeqWorker].indexes)
  /\ k \in Intn(Len(calls[SeqWorker].candidates))
  /\ calls' = [calls EXCEPT ![SeqWorker].indexes[2] = k,
                            ![SeqWorker].i = IF @ < MaxDraws THEN @ + 1 ELSE @]
  /\ UNCHANGED <<teams, teamSeq, users, prs, reviewers, duplicated, clock, ncalls>>

\* the loop is left, the reviewers are filled in and returned
ExitLoop ==
  /\ calls[SeqWorker].pc = "Draw_loop"
  /\ ~LoopCondition(calls[SeqWorker].indexes)
  /\ calls' = [calls EXCEPT ![SeqWorker] =
                 Done([@ EXCEPT !.pr.AssignedReviewers =
                         [i \in 1..Len(calls[SeqWorker].indexes) |->
                            calls[SeqWorker].candidates[i]]], nil)]
  /\ UNCHANGED <<teams, teamSeq, users, prs, reviewers, duplicated, clock, ncalls>>

\* the numbers a draw on a pool of the stored users can return
DrawValues == 0..(NumUsers - 1)

NextLoop ==
  \/ \E excludeUserID \in UserIDs : EnterAutoAssign(1, excludeUserID)
  \/ \E k \in DrawValues : DrawFirst(k)
  \/ \E k \in DrawValues : DrawSecond(k)
  \/ \E k \in DrawValues : Redraw(k)
  \/ ExitLoop

\* one call of autoAssignReviewers on the users of SpecDraw; the goroutine
\* keeps running, and the generator is fair: a number that a draw can return
\* is returned at some time when the draw is repeated without end
SpecLoop ==
  /\ InitDraw
  /\ [][NextLoop]_vars
  /\ WF_vars(ExitLoop)
  /\ \A k \in DrawValues : WF_vars(Redraw(k))

(* ------------------------------ properties ----------------------------- *)
Finished(w, op) == calls[w].pc = "done" /\ calls[w].op = op

\* the candidate pool as the stored users table defines it
Pool(teamID, excludeUserID) ==
  {u \in DOMAIN users : users[u].team_id = teamID /\ users[u].is_active /\ u # excludeUserID}

ReviewersOf(prID) == ReviewerRows(DB, prID)

Distinct(s) == \A i, j \in DOMAIN s : i # j => s[i] # s[j]

\* C1: in every reachable state the stored author of a pull request is not
\* in that pull request's stored reviewer set
C1_AuthorNeverReviewer ==
  \A p \in DOMAIN prs : <<p, prs[p].author_id>> \notin reviewers

\* C2: a CreatePR whose author exists returns two distinct reviewers when the
\* author has at least two active team-mates, one reviewer when there is
\* exactly one, and fails with ErrNoCandidates when there is none
C2_ReviewerCount ==
  \A w \in Workers :
    (Finished(w, "CreatePR") /\ calls[w].userID \in DOMAIN users) =>
      LET c == calls[w]
          n == Cardinality(Pool(users[c.userID].team_id, c.userID))
      IN  /\ n >= 2 => /\ c.err # ErrNoCandidates
                       /\ c.err = nil => /\ Len(c.pr.AssignedReviewers) = 2
                                         /\ Distinct(c.pr.AssignedReviewers)
          /\ n = 1 => /\ c.err # ErrNoCandidates
                      /\ c.err = nil => Len(c.pr.AssignedReviewers) = 1
          /\ n = 0 => c.err = ErrNoCandidates

C2_Witness ==
  \E w \in Workers :
    /\ Finished(w, "CreatePR") /\ calls[w].err = nil
    /\ Cardinality(Pool(users[calls[w].userID].team_id, calls[w].userID)) >= 2
    /\ Len(calls[w].pr.AssignedReviewers) = 2
    /\ Distinct(calls[w].pr.AssignedReviewers)

\* C3: every reviewer a successful CreatePR returns is an active user of the
\* author's team and is not the author
C3_ReviewersFromPool ==
  \A w \in Workers :
    (Finished(w, "CreatePR") /\ calls[w].err = nil) =>
      \A r \in Range(calls[w].pr.AssignedReviewers) :
        /\ r \in DOMAIN users
        /\ users[r].is_active
        /\ users[r].team_id = users[calls[w].userID].team_id
        /\ r # calls[w].userID

C3_Witness ==
  \E w \in Workers :
    /\ Finished(w, "CreatePR") /\ calls[w].err = nil
    /\ calls[w].pr.AssignedReviewers # <<>>
    /\ \E u \in DOMAIN users : /\ u # calls[w].userID
                               /\ users[u].team_id = users[calls[w].userID].team_id
                               /\ ~users[u].is_active

\* C4: MergePR on an existing pull request succeeds with status MERGED, stored
\* and returned; when the pull request was already MERGED (a second call in
\* sequence), the stored and the returned merged_at are the ones it had
C4_MergeIdempotent ==
  \A w \in Workers :
    (Finished(w, "MergePR") /\ calls[w].pre.exists) =>
      LET c == calls[w]
      IN  /\ c.err = nil
          /\ c.pr.Status = PRStatusMerged
          /\ prs[c.prID].status = PRStatusMerged
          /\ prs[c.prID].merged_at = c.pr.MergedAt
          /\ c.pre.row.Status = PRStatusMerged =>
               /\ prs[c.prID].merged_at = c.pre.row.MergedAt
               /\ c.pr.MergedAt = c.pre.row.MergedAt

C4_Witness ==
  \E w \in Workers :
    /\ Finished(w, "MergePR") /\ calls[w].err = nil
    /\ calls[w].pre.exists /\ calls[w].pre.row.Status = PRStatusMerged
    /\ prs[calls[w].prID].merged_at = calls[w].pre.row.MergedAt

\* C5: once a pull request's stored status is MERGED, no operation changes
\* the status or clears merged_at
C5_MergedIsTerminal ==
  [][\A p \in DOMAIN prs :
       prs[p].status = PRStatusMerged =>
         /\ p \in DOMAIN prs'
         /\ prs'[p].status = PRStatusMerged
         /\ prs'[p].merged_at # <<>>]_vars

\* C6: when two MergePR calls on the same pull request run at once, each
\* status update succeeds and an update that finds the pull request already
\* MERGED leaves the stored merged_at as the first update wrote it
C6_LoserKeepsMergedAt ==
  [][\A w, v \in Workers :
       ( /\ w # v
         /\ calls[w].op = "MergePR" /\ calls[v].op = "MergePR"
         /\ calls[w].prID = calls[v].prID
         /\ calls[w].pc = "MergePR_UpdateStatus" /\ calls'[w].pc = "done" ) =>
           /\ calls'[w].err = nil
           /\ prs[calls[w].prID].status = PRStatusMerged =>
                prs'[calls[w].prID].merged_at = prs[calls[w].prID].merged_at]_vars

\* C7: of two ReassignReviewer calls for the same pull request and the same
\* old reviewer that both started while that reviewer was assigned, at most one
\* succeeds; then the other fails with ErrReviewerNotAssigned and the stored
\* reviewer set is the former one with the old reviewer replaced by the
\* reviewer the successful call returned
BothReassignSame(w, v) ==
  /\ w # v
  /\ Finished(w, "ReassignReviewer") /\ Finished(v, "ReassignReviewer")
  /\ calls[w].prID = calls[v].prID /\ calls[w].userID = calls[v].userID
  /\ calls[w].pre.exists /\ calls[v].pre.exists
  /\ calls[w].userID \in Range(calls[w].pre.row.AssignedReviewers)
  /\ calls[v].userID \in Range(calls[v].pre.row.AssignedReviewers)

C7_OneReassignWins ==
  \A w, v \in Workers :
    BothReassignSame(w, v) =>
      /\ ~(calls[w].err = nil /\ calls[v].err = nil)
      /\ calls[w].err = nil =>
           /\ calls[v].err = ErrReviewerNotAssigned
           /\ Cardinality(ReviewersOf(calls[w].prID)) = Len(calls[w].pre.row.AssignedReviewers)
           /\ ReviewersOf(calls[w].prID) =
                (Range(calls[w].pre.row.AssignedReviewers) \ {calls[w].userID})
                   \cup {calls[w].newReviewerID}

\* the losing call had passed the isAssigned test and was refused by the
\* DELETE that affected no row
C7_Witness ==
  \E w, v \in Workers :
    /\ BothReassignSame(w, v)
    /\ calls[w].err = nil
    /\ calls[v].err = ErrReviewerNotAssigned
    /\ calls[v].candidates # <<>>

\* C8: ReassignReviewer on a MERGED pull request fails with ErrPRMerged,
\* whether or not the given reviewer is assigned, and leaves the reviewer
\* set as it was
C8_ReassignOnMerged ==
  \A w \in Workers :
    ( /\ Finished(w, "ReassignReviewer")
      /\ calls[w].pre.exists /\ calls[w].pre.row.Status = PRStatusMerged ) =>
        /\ calls[w].err = ErrPRMerged
        /\ ReviewersOf(calls[w].prID) = Range(calls[w].pre.row.AssignedReviewers)

C8_Witness ==
  \E w \in Workers :
    /\ Finished(w, "ReassignReviewer")
    /\ calls[w].pre.exists /\ calls[w].pre.row.Status = PRStatusMerged
    /\ calls[w].userID \notin Range(calls[w].pre.row.AssignedReviewers)
    /\ calls[w].pre.row.AssignedReviewers # <<>>
    /\ calls[w].err = ErrPRMerged

\* C9: after a successful ReassignReviewer(prID, old) returning new, old is
\* not in the stored reviewer set, new is in it, the set has the size it had
\* before the call, and new differs from old
C9_AtomicReplacement ==
  \A w \in Workers :
    (Finished(w, "ReassignReviewer") /\ calls[w].err = nil) =>
      LET c == calls[w]
      IN  /\ c.userID \notin ReviewersOf(c.prID)
          /\ c.newReviewerID \in ReviewersOf(c.prID)
          /\ Cardinality(ReviewersOf(c.prID)) = Len(c.pre.row.AssignedReviewers)
          /\ c.newReviewerID # c.userID

C9_Witness ==
  \E w \in Workers :
    /\ Finished(w, "ReassignReviewer") /\ calls[w].err = nil
    /\ Len(calls[w].pre.row.AssignedReviewers) = 2
    /\ calls[w].newReviewerID \in ReviewersOf(calls[w].prID)

\* C10: the reviewer a successful ReassignReviewer returns was not assigned
\* to the pull request when the call started, is an active user, is in the
\* team of the replaced reviewer, and is not the replaced reviewer
C10_ReplacementFromPool ==
  \A w \in Workers :
    (Finished(w, "ReassignReviewer") /\ calls[w].err = nil) =>
      LET c == calls[w]
      IN  /\ c.newReviewerID \notin Range(c.pre.row.AssignedReviewers)
          /\ c.newReviewerID \in DOMAIN users
          /\ users[c.newReviewerID].is_active
          /\ users[c.newReviewerID].team_id = users[c.userID].team_id
          /\ c.newReviewerID # c.userID

C10_Witness ==
  \E w \in Workers :
    /\ Finished(w, "ReassignReviewer") /\ calls[w].err = nil
    /\ calls[w].newReviewerID # prs[calls[w].prID].author_id
    /\ calls[w].candidates # <<calls[w].newReviewerID>>

\* C11: after a successful CreatePR on an id that already exists, the stored
\* pull request has the new title and status OPEN, and its stored reviewer
\* set is exactly the reviewer set the call returned
C11_UpsertOverwrites ==
  \A w \in Workers :
    (Finished(w, "CreatePR") /\ calls[w].err = nil /\ calls[w].pre.exists) =>
      LET c == calls[w]
      IN  /\ c.prID \in DOMAIN prs
          /\ prs[c.prID].title = c.title
          /\ prs[c.prID].status = PRStatusOpen
          /\ ReviewersOf(c.prID) = Range(c.pr.AssignedReviewers)

\* C12: a CreatePR that fails with ErrUserNotFound (the author is unknown) or
\* ErrNoCandidates persists nothing: no pull request with that id is created
\* and an existing one keeps its title, status, merged_at and reviewer set
C12_FailedCreatePersistsNothing ==
  \A w \in Workers :
    Finished(w, "CreatePR") =>
      LET c == calls[w]
      IN  /\ c.userID \notin DOMAIN users => c.err = ErrUserNotFound
          /\ c.err \in {ErrUserNotFound, ErrNoCandidates} =>
               /\ (c.prID \in DOMAIN prs) = c.pre.exists
               /\ c.pre.exists =>
                    /\ prs[c.prID].title = c.pre.row.Title
                    /\ prs[c.prID].status = c.pre.row.Status
                    /\ prs[c.prID].merged_at = c.pre.row.MergedAt
                    /\ ReviewersOf(c.prID) = Range(c.pre.row.AssignedReviewers)

C12_Witness ==
  \E w \in Workers :
    /\ Finished(w, "CreatePR") /\ calls[w].err = ErrNoCandidates
    /\ calls[w].pre.exists
    /\ calls[w].title # calls[w].pre.row.Title
    /\ calls[w].pre.row.AssignedReviewers # <<>>

\* C13: in every reachable state a pull request's merged_at is set if and
\* only if its status is MERGED
C13_MergedAtIffMerged ==
  \A p \in DOMAIN prs : (prs[p].merged_at # <<>>) <=> (prs[p].status = PRStatusMerged)

\* a MERGED pull request that CreatePR has stored again
C13_Witness ==
  \E w \in Workers :
    /\ Finished(w, "CreatePR") /\ calls[w].err = nil
    /\ calls[w].pre.exists /\ calls[w].pre.row.Status = PRStatusMerged
    /\ prs[calls[w].prID].status = PRStatusOpen
    /\ prs[calls[w].prID].merged_at = <<>>

\* C14: ReassignReviewer on an existing OPEN pull request with an old
\* reviewer that is not in its reviewer set fails with ErrReviewerNotAssigned
\* and leaves the reviewer set as it was
C14_NotAssigned ==
  \A w \in Workers :
    ( /\ Finished(w, "ReassignReviewer")
      /\ calls[w].pre.exists /\ calls[w].pre.row.Status = PRStatusOpen
      /\ calls[w].userID \notin Range(calls[w].pre.row.AssignedReviewers) ) =>
        /\ calls[w].err = ErrReviewerNotAssigned
        /\ ReviewersOf(calls[w].prID) = Range(calls[w].pre.row.AssignedReviewers)

C14_Witness ==
  \E w \in Workers :
    /\ Finished(w, "ReassignReviewer")
    /\ calls[w].pre.exists /\ calls[w].pre.row.Status = PRStatusOpen
    /\ calls[w].pre.row.AssignedReviewers # <<>>
    /\ calls[w].userID \in DOMAIN users
    /\ calls[w].userID \notin Range(calls[w].pre.row.AssignedReviewers)
    /\ calls[w].err = ErrReviewerNotAssigned

\* C15: a ReassignReviewer, MergePR or GetPR call on a pull request id that
\* does not exist fails with ErrPRNotFound and changes no table
C15_UnknownPR ==
  [][\A w \in Workers :
       ( /\ calls[w].pc = "idle" /\ calls'[w].pc = "done"
         /\ calls'[w].op \in {"ReassignReviewer", "MergePR", "GetPR"}
         /\ calls'[w].prID \notin DOMAIN prs ) =>
           /\ calls'[w].err = ErrPRNotFound
           /\ UNCHANGED <<teams, teamSeq, users, prs, reviewers>>]_vars

C15_Witness ==
  \E w \in Workers :
    /\ Finished(w, "GetPR") /\ calls[w].err = ErrPRNotFound
    /\ ~calls[w].pre.exists
    /\ prs # <<>>

\* C16: when ReassignReviewer fails with ErrNoCandidates the pull request's
\* reviewer set is what it was before the call
C16_NoCandidatesKeepsReviewers ==
  \A w \in Workers :
    (Finished(w, "ReassignReviewer") /\ calls[w].err = ErrNoCandidates) =>
      /\ calls[w].pre.exists
      /\ ReviewersOf(calls[w].prID) = Range(calls[w].pre.row.AssignedReviewers)
      /\ calls[w].userID \in ReviewersOf(calls[w].prID)

C16_Witness ==
  \E w \in Workers :
    /\ Finished(w, "ReassignReviewer") /\ calls[w].err = ErrNoCandidates
    /\ calls[w].userID \in ReviewersOf(calls[w].prID)

\* C17: GetPRsByReviewer(r) returns, without error, exactly the pull requests
\* of any status whose stored reviewer set contains r, in ascending id order;
\* for an r that has no assignment or does not exist the list is empty
C17_ReviewerList ==
  \A w \in Workers :
    Finished(w, "GetPRsByReviewer") =>
      LET c == calls[w]
          assignedTo == {p \in DOMAIN prs : <<p, c.userID>> \in reviewers}
      IN  /\ c.err = nil
          /\ {c.found[k].ID : k \in DOMAIN c.found} = assignedTo
          /\ \A j, k \in DOMAIN c.found : j < k => c.found[j].ID < c.found[k].ID
          /\ \A k \in DOMAIN c.found : c.found[k].Status = prs[c.found[k].ID].status
          /\ (c.userID \notin DOMAIN users \/ assignedTo = {}) => c.found = <<>>

C17_Witness ==
  \E w \in Workers :
    /\ Finished(w, "GetPRsByReviewer")
    /\ Len(calls[w].found) >= 2
    /\ calls[w].found[1].Status = PRStatusMerged
    /\ calls[w].found[2].Status = PRStatusOpen
    /\ \E p \in DOMAIN prs : <<p, calls[w].userID>> \notin reviewers

\* the author is the only user of the author's team
SoloAuthor(c) ==
  /\ c.userID \in DOMAIN users
  /\ \A v \in DOMAIN users : v # c.userID => users[v].team_id # users[c.userID].team_id

\* C18 as stated: a CreatePR whose author is the only member of the team
\* succeeds and yields a pull request with no reviewer
C18_SoloAuthorSucceeds ==
  \A w \in Workers :
    (Finished(w, "CreatePR") /\ SoloAuthor(calls[w])) =>
      /\ calls[w].err = nil
      /\ Len(calls[w].pr.AssignedReviewers) = 0

\* C18 as amended: a CreatePR whose author is the only member of the team
\* fails with ErrNoCandidates and stores no pull request
C18_SoloAuthorNoCandidates ==
  \A w \in Workers :
    (Finished(w, "CreatePR") /\ SoloAuthor(calls[w])) =>
      /\ calls[w].err = ErrNoCandidates
      /\ (calls[w].prID \in DOMAIN prs) = calls[w].pre.exists

C18_Witness ==
  \E w \in Workers :
    /\ Finished(w, "CreatePR") /\ SoloAuthor(calls[w])
    /\ calls[w].prID # EmptyID /\ calls[w].title # ""
    /\ calls[w].err = ErrNoCandidates
    /\ calls[w].prID \notin DOMAIN prs

\* C19: a user who is inactive when a CreatePR call starts and stays so is
\* neither in the reviewer set the call returns nor in the one it has stored
C19_InactiveNeverAssigned ==
  \A w \in Workers :
    (Finished(w, "CreatePR") /\ calls[w].err = nil) =>
      \A u \in DOMAIN users :
        ~users[u].is_active =>
          /\ u \notin Range(calls[w].pr.AssignedReviewers)
          /\ u \notin ReviewersOf(calls[w].prID)

\* C20: SetUserActivity changes no pull request: every reviewer set, status
\* and merged_at is what it was before the call
C20_ActivityChangesNoPR ==
  [][\A w \in Workers :
       (calls'[w] # calls[w] /\ calls'[w].op = "SetUserActivity") =>
         /\ prs' = prs
         /\ reviewers' = reviewers]_vars

\* a reviewer of a pull request has been deactivated
C20_Witness ==
  \E w \in Workers :
    /\ Finished(w, "SetUserActivity") /\ calls[w].err = nil
    /\ ~calls[w].isActive
    /\ ~users[calls[w].userID].is_active
    /\ \E p \in DOMAIN prs : <<p, calls[w].userID>> \in reviewers

\* C21: SetUserActivity(u, b) on an existing user sets the stored active flag
\* to b, returns the user with flag b, and leaves the user's id, username and
\* team as they were; on a user id that does not exist it fails with
\* ErrUserNotFound and changes nothing
C21_SetUserActivity ==
  [][\A w \in Workers :
       ( /\ calls[w].pc = "idle" /\ calls'[w].pc = "done"
         /\ calls'[w].op = "SetUserActivity" ) =>
           LET u == calls'[w].userID
               b == calls'[w].isActive
           IN  IF u \in DOMAIN users
                 THEN /\ calls'[w].err = nil
                      /\ users' = [users EXCEPT ![u].is_active = b]
                      /\ calls'[w].user = [ID |-> u, Username |-> users[u].username,
                                           TeamID |-> users[u].team_id, IsActive |-> b]
                 ELSE /\ calls'[w].err = ErrUserNotFound
                      /\ UNCHANGED <<teams, teamSeq, users, prs, reviewers>>]_vars

\* the flag of a stored user has been turned off and the call returned it off
C21_Witness ==
  \E w \in Workers :
    /\ Finished(w, "SetUserActivity") /\ calls[w].err = nil
    /\ calls[w].user.ID = calls[w].userID
    /\ calls[w].user.Username # ""
    /\ ~calls[w].user.IsActive
    /\ users[calls[w].userID] = [username |-> calls[w].user.Username,
                                 team_id |-> calls[w].user.TeamID, is_active |-> FALSE]

\* the user ids a CreateTeam call names in its member list
NamedMembers(c) == {c.team.Members[k].UserID : k \in DOMAIN c.team.Members}

\* C22 as stated: once a user exists, no operation changes its team id
C22_TeamNeverChanges ==
  [][\A u \in DOMAIN users :
       /\ u \in DOMAIN users'
       /\ users'[u].team_id = users[u].team_id]_vars

\* C22 as amended: once a user exists, its team id changes only by a
\* CreateTeam call that names the user in its member list, which moves the
\* user to the team it creates; a successful CreateTeam leaves every named
\* user in the new team, and no other operation changes a team id
C22_TeamChangesOnlyByCreateTeam ==
  [][/\ \A u \in DOMAIN users :
          /\ u \in DOMAIN users'
          /\ users'[u].team_id # users[u].team_id =>
               /\ \E w \in Workers : /\ calls'[w] # calls[w]
                                      /\ calls'[w].op = "CreateTeam"
                                      /\ u \in NamedMembers(calls'[w])
               /\ users'[u].team_id \in {t.id : t \in teams' \ teams}
     /\ \A w \in Workers :
          ( /\ calls[w].pc = "idle" /\ calls'[w].pc = "done"
            /\ calls'[w].op = "CreateTeam" /\ calls'[w].err = nil ) =>
              \A u \in NamedMembers(calls'[w]) :
                /\ u \in DOMAIN users'
                /\ users'[u].team_id = calls'[w].team.ID]_vars

\* the author of a stored pull request has been moved to the team the call
\* has just created
C22_Witness ==
  \E w \in Workers :
    /\ Finished(w, "CreateTeam") /\ calls[w].err = nil
    /\ \E p \in DOMAIN prs :
         /\ prs[p].author_id \in NamedMembers(calls[w])
         /\ users[prs[p].author_id].team_id = calls[w].team.ID

\* the step in which worker w receives a CreateTeam call and runs SaveTeam
SaveTeamStep(w) == calls[w].pc = "idle" /\ calls'[w].op = "CreateTeam"

SaveTeamFailed(w) == calls'[w].pc = "done" /\ calls'[w].err # nil

\* what SaveTeam does to the teams table: nothing when it fails, one more
\* team of the given name when it succeeds, and never two teams of one name
SaveTeamEffect(w) ==
  /\ (\E t \in teams : t.name = calls'[w].team.Name) =>
       SaveTeamFailed(w) /\ calls'[w].err = ErrTeamExists
  /\ SaveTeamFailed(w) => teams' = teams
  /\ ~SaveTeamFailed(w) =>
       /\ teams \subseteq teams'
       /\ Cardinality(teams') = Cardinality(teams) + 1
       /\ \A t \in teams' \ teams : t.name = calls'[w].team.Name
  /\ \A s, t \in teams' : s.name = t.name => s = t

BothCreateSame(w, v) ==
  /\ w # v
  /\ Finished(w, "CreatePR") /\ Finished(v, "CreatePR")
  /\ calls[w].prID = calls[v].prID /\ calls[w].prID # EmptyID
  /\ calls[w].title # "" /\ calls[v].title # ""
  /\ \A x \in {w, v} : /\ calls[x].userID \in DOMAIN users
                        /\ Pool(users[calls[x].userID].team_id, calls[x].userID) # {}

\* C24: two CreatePR calls running at once with the same pull request id,
\* whose authors exist and have candidates, both succeed, and afterwards the
\* one pull request stored under that id is OPEN
C24_ConcurrentCreateSameID ==
  \A w, v \in Workers :
    BothCreateSame(w, v) =>
      /\ calls[w].err = nil /\ calls[v].err = nil
      /\ calls[w].prID \in DOMAIN prs
      /\ prs[calls[w].prID].status = PRStatusOpen
      /\ prs[calls[w].prID].merged_at = <<>>
      /\ prs[calls[w].prID].title \in {calls[w].title, calls[v].title}

\* both calls started when the id was not stored, both have succeeded
C24_Witness ==
  \E w, v \in Workers :
    /\ BothCreateSame(w, v)
    /\ ~calls[w].pre.exists /\ ~calls[v].pre.exists
    /\ calls[w].err = nil /\ calls[v].err = nil
    /\ calls[w].title # calls[v].title
    /\ calls[w].prID \in DOMAIN prs

\* C25: in every reachable state no user id is stored more than once in the
\* reviewer set of a pull request, CreatePR on a stored id and ReassignReviewer
\* calls running at once and choosing the same replacement included
C25_NoDuplicateReviewers == duplicated = {}

\* two calls replaced different reviewers of one pull request and chose the
\* same user: one has stored it, the other was refused by the key
C25_Witness ==
  \E w, v \in Workers :
    /\ w # v
    /\ Finished(w, "ReassignReviewer") /\ Finished(v, "ReassignReviewer")
    /\ calls[w].prID = calls[v].prID /\ calls[w].userID # calls[v].userID
    /\ calls[w].err = nil /\ calls[v].err = ErrStorage
    /\ Range(calls[v].candidates) \ Range(calls[v].pr.AssignedReviewers)
         = {calls[w].newReviewerID}
    /\ calls[w].newReviewerID \in ReviewersOf(calls[w].prID)
    /\ calls[v].userID \in ReviewersOf(calls[w].prID)

\* C26: in every state reached by CreatePR (repeated on one id included),
\* MergePR and ReassignReviewer calls, the stored reviewer set of every pull
\* request has at most two members
C26_AtMostTwoReviewers ==
  \A p \in DOMAIN prs : Cardinality(ReviewersOf(p)) <= 2

\* C27: in every reachable state every user in the stored reviewer set of a
\* pull request belongs to the team of the pull request's stored author
C27_ReviewersInAuthorsTeam ==
  \A p \in DOMAIN prs :
    \A r \in ReviewersOf(p) :
      /\ r \in DOMAIN users
      /\ prs[p].author_id \in DOMAIN users
      /\ users[r].team_id = users[prs[p].author_id].team_id

\* C28: every failure that ReassignReviewer returns, whatever CreatePR,
\* MergePR and ReassignReviewer calls on the same pull request run at the same
\* time, is ErrPRNotFound, ErrPRMerged, ErrReviewerNotAssigned,
\* ErrNoCandidates or ErrUserNotFound, never an error of the storage
C28_ReassignFailuresTyped ==
  \A w \in Workers :
    (Finished(w, "ReassignReviewer") /\ calls[w].err # nil) =>
      calls[w].err \in {ErrPRNotFound, ErrPRMerged, ErrReviewerNotAssigned,
                        ErrNoCandidates, ErrUserNotFound}

\* the candidates at the indexes of a draw
AtIndexes(candidates, indexes) ==
  {candidates[indexes[k] + 1] : k \in DOMAIN indexes}

\* C29: when the pool has two or more members, the reviewers of CreatePR are
\* the pool members at the two distinct indexes that were drawn, so that with
\* a pool of three or more every pair of distinct pool members can be the
\* result
C29_ReviewersAtDrawnIndexes ==
  \A w \in Workers :
    ( /\ Finished(w, "CreatePR") /\ calls[w].err = nil
      /\ Len(calls[w].candidates) >= 2 ) =>
        LET candidates == calls[w].candidates
        IN  /\ calls[w].pr.AssignedReviewers \in
                 {a.reviewers : a \in autoAssignReviewers(candidates)}
            /\ \A a \in autoAssignReviewers(candidates) :
                 /\ Len(a.indexes) = 2 /\ a.indexes[1] # a.indexes[2]
                 /\ Range(a.reviewers) = AtIndexes(candidates, a.indexes)
            /\ Len(candidates) >= 3 =>
                 \A x, y \in Range(candidates) :
                   x # y => \E a \in autoAssignReviewers(candidates) :
                              Range(a.reviewers) = {x, y}

\* C30: while MergePR and ReassignReviewer calls on a pull request run at
\* the same time, its reviewer set does not change any more once its stored
\* status is MERGED
C30_MergedFreezesReviewers ==
  [][(\A w \in Workers : calls'[w].op \in {"", "MergePR", "ReassignReviewer"}) =>
       \A p \in DOMAIN prs :
         prs[p].status = PRStatusMerged =>
           {row \in reviewers' : row[1] = p} = {row \in reviewers : row[1] = p}]_vars

\* C31: the reviewer that a successful ReassignReviewer has chosen as the
\* replacement is not the author of the pull request, also when the author is
\* an active member of the team of the replaced reviewer
C31_ReplacementNeverAuthor ==
  \A w \in Workers :
    (Finished(w, "ReassignReviewer") /\ calls[w].err = nil) =>
      /\ calls[w].newReviewerID # calls[w].pr.AuthorID
      /\ calls[w].newReviewerID # prs[calls[w].prID].author_id

\* C32: while SetUserActivity calls run at the same time as CreatePR or
\* ReassignReviewer calls, every user that a step adds to the stored reviewer
\* set of a pull request is active when the step commits
C32_ActiveWhenCommitted ==
  [][(\A w \in Workers :
        calls'[w].op \in {"", "SetUserActivity", "CreatePR", "ReassignReviewer"}) =>
       \A row \in reviewers' \ reviewers :
         /\ row[2] \in DOMAIN users'
         /\ users'[row[2]].is_active]_vars

\* two finished ReassignReviewer calls for one pull request and two different
\* reviewers, both of them assigned when each of the calls started
BothReassignDifferent(w, v) ==
  /\ w # v
  /\ Finished(w, "ReassignReviewer") /\ Finished(v, "ReassignReviewer")
  /\ calls[w].prID = calls[v].prID /\ calls[w].userID # calls[v].userID
  /\ calls[w].pre.exists /\ calls[v].pre.exists
  /\ {calls[w].userID, calls[v].userID} \subseteq Range(calls[w].pre.row.AssignedReviewers)
  /\ {calls[w].userID, calls[v].userID} \subseteq Range(calls[v].pre.row.AssignedReviewers)

\* C33: after two ReassignReviewer calls that ran at once on one pull request
\* for two different assigned reviewers, the reviewer set has the size it had
\* before, and the reviewer of every call that failed is still in the set
C33_ConcurrentReassignDifferent ==
  \A w, v \in Workers :
    BothReassignDifferent(w, v) =>
      /\ Cardinality(ReviewersOf(calls[w].prID)) = Len(calls[w].pre.row.AssignedReviewers)
      /\ \A x \in {w, v} :
           calls[x].err # nil => calls[x].userID \in ReviewersOf(calls[x].prID)

\* one call has replaced its reviewer, the other has failed and its reviewer
\* is still assigned
C33_Witness ==
  \E w, v \in Workers :
    /\ BothReassignDifferent(w, v)
    /\ calls[w].err = nil /\ calls[v].err # nil
    /\ ReviewersOf(calls[w].prID) = {calls[w].newReviewerID, calls[v].userID}
    /\ Len(calls[w].pre.row.AssignedReviewers) = 2

\* a ReplaceReviewer call whose DELETE found the row of the old reviewer and
\* whose INSERT failed
InsertFailedAfterDelete(w) ==
  /\ Finished(w, "ReplaceReviewer")
  /\ calls[w].pre.exists
  /\ calls[w].userID \in Range(calls[w].pre.row.AssignedReviewers)
  /\ calls[w].err # nil

\* C34: when ReplaceReviewer has removed the old reviewer and the insert of
\* the new one fails (no such user, or the user is already a reviewer of the
\* pull request), the reviewer set is the one before the call and the old
\* reviewer is in it
C34_ReplaceReviewerAllOrNothing ==
  \A w \in Workers :
    InsertFailedAfterDelete(w) =>
      /\ calls[w].userID \in ReviewersOf(calls[w].prID)
      /\ ReviewersOf(calls[w].prID) = Range(calls[w].pre.row.AssignedReviewers)

\* the insert of a user that does not exist has failed
C34_Witness ==
  \E w \in Workers :
    /\ InsertFailedAfterDelete(w)
    /\ calls[w].newReviewerID = NoUserID
    /\ calls[w].userID \in ReviewersOf(calls[w].prID)

\* C35: the team that a successful CreateTeam returns has the members of the
\* request, each of them once and in the order of the request, so as many
\* members as the request carried
C35_ReturnedMembersAsSupplied ==
  [][\A name \in TeamNames, members \in MemberLists :
       (CreateTeam(name, members) /\ calls'[SeqWorker].err = nil) =>
         /\ calls'[SeqWorker].team.Members = members
         /\ Len(calls'[SeqWorker].team.Members) = Len(members)]_vars

\* a CreateTeam call that has failed in SaveUser, after SaveTeam had stored the
\* team row and set the id of the team
CreateTeamFailedAtMember(w) ==
  /\ Finished(w, "CreateTeam")
  /\ calls[w].err # nil
  /\ calls[w].team.ID # 0

\* C36: after a CreateTeam call that failed while saving one of its members,
\* the teams table has no row of the new team and the users table has no row
\* in the new team
C36_FailedCreateTeamPersistsNothing ==
  \A w \in Workers :
    CreateTeamFailedAtMember(w) =>
      /\ \A t \in teams : t.id # calls[w].team.ID /\ t.name # calls[w].team.Name
      /\ \A u \in DOMAIN users : users[u].team_id # calls[w].team.ID

\* a CreatePR call with an empty id or an empty title has returned
EmptyCreatePR(w) ==
  /\ Finished(w, "CreatePR")
  /\ calls[w].prID = EmptyID \/ calls[w].title = ""

\* C37: CreatePR with an empty id or an empty title returns an error and
\* stores nothing: no pull request has the empty id or an empty title, and
\* what is stored under the id of the call is what was stored before it
C37_EmptyCreatePRRejected ==
  /\ EmptyID \notin DOMAIN prs
  /\ \A p \in DOMAIN prs : prs[p].title # ""
  /\ \A w \in Workers :
       EmptyCreatePR(w) =>
         /\ calls[w].err # nil
         /\ Snapshot(DB, calls[w].prID) = calls[w].pre
         /\ \A row \in reviewers : row[1] # EmptyID

\* SavePR has refused an empty title for the id of a stored pull request
C37_Witness ==
  \E w \in Workers :
    /\ EmptyCreatePR(w)
    /\ calls[w].prID # EmptyID
    /\ calls[w].err = ErrStorage
    /\ calls[w].pre.exists
    /\ Snapshot(DB, calls[w].prID) = calls[w].pre

\* the re-draw loop is running on a pool of two or more candidates
InRedrawLoop ==
  /\ calls[SeqWorker].op = "autoAssignReviewers"
  /\ calls[SeqWorker].pc = "Draw_loop"
  /\ Len(calls[SeqWorker].candidates) >= 2

\* the loop has been left on a pool of two or more candidates
RedrawLoopLeft ==
  /\ Finished(SeqWorker, "autoAssignReviewers")
  /\ calls[SeqWorker].err = nil
  /\ Len(calls[SeqWorker].candidates) >= 2

\* C38: on a pool of two or more candidates, and with a fair generator, the
\* loop that draws the second index again while it equals the first is left
\* at some time, and when it is left the two indexes are different and both
\* of them are indexes of the pool
C38_RedrawLoopTerminates ==
  /\ InRedrawLoop ~> RedrawLoopLeft
  /\ [](RedrawLoopLeft =>
          LET indexes == calls[SeqWorker].indexes
              n == Len(calls[SeqWorker].candidates)
          IN  /\ Len(indexes) = 2
              /\ indexes[1] # indexes[2]
              /\ \A j \in 1..2 : indexes[j] >= 0 /\ indexes[j] < n)

\* the loop has been left after the second index was drawn again at least
\* MaxDraws times
C38_Witness ==
  /\ RedrawLoopLeft
  /\ calls[SeqWorker].i = MaxDraws
  /\ calls[SeqWorker].indexes \in DrawIndexes(Len(calls[SeqWorker].candidates))

====
